---- MODULE Spec2Model ----
(***************************************************************************)
(* State machine of the DataGrid component (src/src/DataGrid.js).          *)
(*                                                                         *)
(* Strings are sequences of one-character strings, so that trim,           *)
(* toLowerCase, includes and the relational operators are computed.        *)
(* A cell value is a record [t, n, s]: t is the JavaScript type ("num",    *)
(* "str" or "undef"), n the number, s the string.  A row object is a       *)
(* record [id, orig, cells]: id is the object's reference (=== compares    *)
(* ids), cells the own properties in insertion order, and orig a history   *)
(* field: the id of the object created by the import or by addNewRow that  *)
(* this object is a (spread) copy of.  Row objects are never mutated by    *)
(* the component, so an id always stands for the same cells.               *)
(* Indices held in the state (selectedRows, editingCell.row) are 0-based   *)
(* as in the component; sequences are 1-based.                             *)
(***************************************************************************)
EXTENDS Integers, Sequences, FiniteSets, TLC

VARIABLES
    data,          \* useState([])            canonical rows
    columns,       \* useState([])            schema
    filteredData,  \* useState([])            projection
    searchTerm,    \* useState('')
    sortConfig,    \* useState({key: null, direction: 'asc'})
    isUploading,   \* useState(false)
    selectedRows,  \* useState(new Set())     0-based projection indices
    editingCell,   \* useState(null)
    inflight,      \* files whose asynchronous parse has not called back yet
    nextId,        \* reference of the next object to be created
    last           \* history: what the last step did (kept by SpecH only)

vars == <<data, columns, filteredData, searchTerm, sortConfig, isUploading,
          selectedRows, editingCell, inflight, nextId, last>>

(***************************************************************************)
(* Bounds of the model.                                                    *)
(***************************************************************************)
MaxObjects == 4

MaxRows == 2

(***************************************************************************)
(* Strings.                                                                *)
(***************************************************************************)
Code(c) ==
    CASE c = " " -> 32
      [] c = "1" -> 49
      [] c = "2" -> 50
      [] c = "A" -> 65
      [] c = "B" -> 66
      [] c = "a" -> 97
      [] c = "b" -> 98
      [] c = "g" -> 103
      [] c = "n" -> 110

IsDigit(c) == c \in {"1", "2"}

DigitValue(c) == Code(c) - 48

DigitChar(d) == IF d = 1 THEN "1" ELSE "2"

ToLowerChar(c) ==
    CASE c = "A" -> "a"
      [] c = "B" -> "b"
      [] OTHER -> c

ToLowerCase(s) == [i \in 1..Len(s) |-> ToLowerChar(s[i])]

SetMin(S) == CHOOSE x \in S : \A y \in S : x <= y

SetMax(S) == CHOOSE x \in S : \A y \in S : y <= x

Trim(s) ==
    LET solid == {i \in 1..Len(s) : s[i] # " "}
    IN  IF solid = {} THEN <<>> ELSE SubSeq(s, SetMin(solid), SetMax(solid))

Includes(s, t) ==
    \E i \in 1..(Len(s) - Len(t) + 1) : SubSeq(s, i, i + Len(t) - 1) = t

\* s < t on strings: by code units, a proper prefix first.
StrLess(s, t) ==
    \E i \in 1..(Len(t)) :
        /\ \A j \in 1..(i - 1) : j <= Len(s) /\ s[j] = t[j]
        /\ \/ i = Len(s) + 1
           \/ i <= Len(s) /\ Code(s[i]) < Code(t[i])

(***************************************************************************)
(* Cell values.                                                            *)
(***************************************************************************)
Num(n) == [t |-> "num", n |-> n, s |-> <<>>]

Str(s) == [t |-> "str", n |-> 0, s |-> s]

Undefined == [t |-> "undef", n |-> 0, s |-> <<>>]

\* String(value)
String(v) ==
    CASE v.t = "num" -> <<DigitChar(v.n)>>
      [] v.t = "str" -> v.s
      [] OTHER -> <<"u", "n", "d", "e", "f", "i", "n", "e", "d">>

\* ToNumber(value): [nan, n]
ToNumber(v) ==
    CASE v.t = "num" -> [nan |-> FALSE, n |-> v.n]
      [] v.t = "str" ->
            LET body == Trim(v.s)
            IN  IF body = <<>> THEN [nan |-> FALSE, n |-> 0]
                ELSE IF Len(body) = 1 /\ IsDigit(body[1])
                     THEN [nan |-> FALSE, n |-> DigitValue(body[1])]
                     ELSE [nan |-> TRUE, n |-> 0]
      [] OTHER -> [nan |-> TRUE, n |-> 0]

\* a < b
Less(a, b) ==
    IF a.t = "str" /\ b.t = "str"
    THEN StrLess(a.s, b.s)
    ELSE LET x == ToNumber(a)
             y == ToNumber(b)
         IN  ~x.nan /\ ~y.nan /\ x.n < y.n

(***************************************************************************)
(* Row objects.                                                            *)
(***************************************************************************)
\* row[key]
Get(row, key) ==
    LET at == {i \in 1..Len(row.cells) : row.cells[i].k = key}
    IN  IF at = {} THEN Undefined ELSE row.cells[CHOOSE i \in at : TRUE].v

\* Object.keys(row)
Keys(row) == [i \in 1..Len(row.cells) |-> row.cells[i].k]

\* Object.values(row)
Values(row) == {row.cells[i].v : i \in 1..Len(row.cells)}

\* the own properties of { ...row, [key]: value }
SpreadWith(cells, key, value) ==
    IF \E i \in 1..Len(cells) : cells[i].k = key
    THEN [i \in 1..Len(cells) |->
            IF cells[i].k = key THEN [k |-> key, v |-> value] ELSE cells[i]]
    ELSE Append(cells, [k |-> key, v |-> value])

Ids(rows) == {rows[i].id : i \in 1..Len(rows)}

\* rows.findIndex(row => row === target), 0-based, -1 when absent
FindIndex(rows, target) ==
    LET at == {i \in 1..Len(rows) : rows[i].id = target.id}
    IN  IF at = {} THEN -1 ELSE SetMin(at) - 1

\* the objects built by a parser: row i of the input becomes a new object
Allocate(input, firstId) ==
    [i \in 1..Len(input) |->
        [id |-> firstId + i - 1, orig |-> firstId + i - 1, cells |-> input[i]]]

(***************************************************************************)
(* Inputs: the files a user can select.  A file is its MIME type, whether  *)
(* its name ends in ".csv", and what its parser makes of its text: ok      *)
(* (FALSE: the parser reports an error / JSON.parse throws), isArray (the  *)
(* JSON document is an array) and rows, the cells of each parsed row.      *)
(***************************************************************************)
KeyN == <<"n">>

KeyG == <<"g">>

KeyPadG == <<" ", "g">>

RowsAB ==
    << <<[k |-> KeyN, v |-> Str(<<"A", "b">>)], [k |-> KeyG, v |-> Num(2)]>>,
       <<[k |-> KeyN, v |-> Str(<<"b">>)], [k |-> KeyG, v |-> Num(1)]>> >>

RowsPadded ==
    << <<[k |-> KeyN, v |-> Str(<<"a">>)], [k |-> KeyPadG, v |-> Num(1)]>> >>

RowsOne ==
    << <<[k |-> KeyN, v |-> Str(<<"a", "b">>)], [k |-> KeyG, v |-> Str(<<"1">>)]>> >>

File(type, csvName, ok, isArray, rows) ==
    [type |-> type, csvName |-> csvName, ok |-> ok, isArray |-> isArray, rows |-> rows]

Files ==
    { File("text/csv", TRUE, TRUE, TRUE, RowsAB),
      File("", TRUE, TRUE, TRUE, RowsPadded),
      File("text/csv", TRUE, TRUE, TRUE, <<>>),
      File("text/csv", TRUE, FALSE, TRUE, <<>>),
      File("application/json", FALSE, TRUE, TRUE, RowsAB),
      File("application/json", FALSE, TRUE, FALSE, RowsOne),
      File("application/json", FALSE, TRUE, TRUE, <<>>),
      File("application/json", FALSE, FALSE, TRUE, <<>>),
      File("text/plain", FALSE, TRUE, TRUE, <<>>) }

\* what the user can type into the search box
Terms == { <<>>, <<" ">>, <<"a", "B">> }

\* what the user can type into a cell
EditValues == { <<"b">> }

IsCsv(file) == file.type = "text/csv" \/ file.csvName

IsJson(file) == ~IsCsv(file) /\ file.type = "application/json"

NoCell == [set |-> FALSE, row |-> 0, column |-> <<>>]

NoKey == <<"n", "u", "l", "l">>

(***************************************************************************)
(* The component.                                                          *)
(***************************************************************************)
Init ==
    /\ data = <<>>
    /\ columns = <<>>
    /\ filteredData = <<>>
    /\ searchTerm = <<>>
    /\ sortConfig = [key |-> NoKey, direction |-> "asc"]
    /\ isUploading = FALSE
    /\ selectedRows = {}
    /\ editingCell = NoCell
    /\ inflight = <<>>
    /\ nextId = 1
    /\ last = "init"

\* what the render shows
UploadShown == Len(data) = 0

TableShown == Len(data) > 0

ColumnKeys == {columns[i].key : i \in 1..Len(columns)}

Column(key) == [key |-> key, label |-> key, type |-> "text"]

Remove(seq, i) == SubSeq(seq, 1, i - 1) \o SubSeq(seq, i + 1, Len(seq))

\* resetDataGrid without setSearchTerm('') and setSelectedRows(new Set())
resetDataGridKeepsView ==
    /\ TableShown
    /\ data' = <<>>
    /\ columns' = <<>>
    /\ filteredData' = <<>>
    /\ sortConfig' = [key |-> NoKey, direction |-> "asc"]
    /\ editingCell' = NoCell
    /\ nextId' = 1
    /\ UNCHANGED <<searchTerm, selectedRows, isUploading, inflight>>

resetDataGrid ==
    /\ TableShown
    /\ data' = <<>>
    /\ columns' = <<>>
    /\ filteredData' = <<>>
    /\ searchTerm' = <<>>
    /\ sortConfig' = [key |-> NoKey, direction |-> "asc"]
    /\ selectedRows' = {}
    /\ editingCell' = NoCell
    /\ nextId' = 1
    /\ UNCHANGED <<isUploading, inflight>>

\* handleFileUpload on an input that is not disabled while isUploading
handleFileUploadWhileBusy(file) ==
    /\ UploadShown
    /\ isUploading' = TRUE
    /\ inflight' = IF IsCsv(file) \/ IsJson(file) THEN Append(inflight, file) ELSE inflight
    /\ UNCHANGED <<data, columns, filteredData, searchTerm, sortConfig,
                   selectedRows, editingCell, nextId>>

handleFileUpload(file) ==
    /\ UploadShown
    /\ ~isUploading
    /\ isUploading' = TRUE
    /\ inflight' = IF IsCsv(file) \/ IsJson(file) THEN Append(inflight, file) ELSE inflight
    /\ UNCHANGED <<data, columns, filteredData, searchTerm, sortConfig,
                   selectedRows, editingCell, nextId>>

\* Papa.parse's complete callback.  Every row object that existed before is
\* unreachable once data and filteredData are replaced, so the new objects are
\* named from 1 again.
ParseComplete(i) ==
    LET file == inflight[i]
        results == Allocate(file.rows, 1)
    IN  /\ IsCsv(file)
        /\ file.ok
        /\ inflight' = Remove(inflight, i)
        /\ IF Len(results) > 0
           THEN /\ columns' = [k \in 1..Len(Keys(results[1])) |->
                                 Column(Trim(Keys(results[1])[k]))]
                /\ data' = results
                /\ filteredData' = results
                /\ nextId' = Len(results) + 1
           ELSE UNCHANGED <<columns, data, filteredData, nextId>>
        /\ isUploading' = FALSE
        /\ UNCHANGED <<searchTerm, sortConfig, selectedRows, editingCell>>

\* the error callback without setIsUploading(false)
ParseErrorStaysBusy(i) ==
    LET file == inflight[i]
    IN  /\ IsCsv(file)
        /\ ~file.ok
        /\ inflight' = Remove(inflight, i)
        /\ UNCHANGED <<data, columns, filteredData, searchTerm, sortConfig,
                       isUploading, selectedRows, editingCell, nextId>>

\* Papa.parse's error callback
ParseError(i) ==
    LET file == inflight[i]
    IN  /\ IsCsv(file)
        /\ ~file.ok
        /\ inflight' = Remove(inflight, i)
        /\ isUploading' = FALSE
        /\ UNCHANGED <<data, columns, filteredData, searchTerm, sortConfig,
                       selectedRows, editingCell, nextId>>

\* reader.onload
ReaderOnload(i) ==
    LET file == inflight[i]
        jsonData == Allocate(file.rows, 1)
        arrayData == IF file.isArray THEN jsonData ELSE <<jsonData[1]>>
    IN  /\ IsJson(file)
        /\ inflight' = Remove(inflight, i)
        /\ IF file.ok /\ Len(arrayData) > 0
           THEN /\ columns' = [k \in 1..Len(Keys(arrayData[1])) |->
                                 Column(Keys(arrayData[1])[k])]
                /\ data' = arrayData
                /\ filteredData' = arrayData
                /\ nextId' = Len(arrayData) + 1
           ELSE UNCHANGED <<columns, data, filteredData, nextId>>
        /\ isUploading' = FALSE
        /\ UNCHANGED <<searchTerm, sortConfig, selectedRows, editingCell>>

\* row => Object.values(row).some(value => String(value).toLowerCase().includes(term.toLowerCase()))
RowMatches(row, term) ==
    \E value \in Values(row) : Includes(ToLowerCase(String(value)), ToLowerCase(term))

\* handleSearch comparing the cell text without lowering its case
handleSearchCaseSensitive(term) ==
    /\ TableShown
    /\ searchTerm' = term
    /\ IF Trim(term) = <<>>
       THEN filteredData' = data
       ELSE filteredData' =
               SelectSeq(data, LAMBDA row :
                   \E value \in Values(row) : Includes(String(value), ToLowerCase(term)))
    /\ UNCHANGED <<data, columns, sortConfig, isUploading, selectedRows,
                   editingCell, inflight, nextId>>

handleSearch(term) ==
    /\ TableShown
    /\ searchTerm' = term
    /\ IF Trim(term) = <<>>
       THEN filteredData' = data
       ELSE filteredData' = SelectSeq(data, LAMBDA row : RowMatches(row, term))
    /\ UNCHANGED <<data, columns, sortConfig, isUploading, selectedRows,
                   editingCell, inflight, nextId>>

\* the comparator handed to sort: negative, zero or positive
Compare(a, b, columnKey, direction) ==
    LET aVal == Get(a, columnKey)
        bVal == Get(b, columnKey)
    IN  IF Less(aVal, bVal) THEN (IF direction = "asc" THEN -1 ELSE 1)
        ELSE IF Less(bVal, aVal) THEN (IF direction = "asc" THEN 1 ELSE -1)
        ELSE 0

Orders(n) ==
    {p \in [1..n -> 1..n] : \A i, j \in 1..n : p[i] = p[j] => i = j}

\* comparator(rows[i], rows[j]) for every pair of positions
CompareAll(rows, columnKey, direction) ==
    [i \in 1..Len(rows) |->
        [j \in 1..Len(rows) |-> Compare(rows[i], rows[j], columnKey, direction)]]

\* ECMAScript's "consistent comparator", for the comparator of handleSort
\* on the elements of rows
Consistent(cmp) ==
    \A i, j, k \in DOMAIN cmp :
        /\ cmp[i][j] = 0 /\ cmp[j][k] = 0 => cmp[i][k] = 0
        /\ cmp[i][j] < 0 /\ cmp[j][k] < 0 => cmp[i][k] < 0
        /\ cmp[i][j] < 0 /\ cmp[j][k] = 0 => cmp[i][k] < 0
        /\ cmp[i][j] = 0 /\ cmp[j][k] < 0 => cmp[i][k] < 0

\* the arrays [...rows].sort(comparator) may produce: the stable sorted order
\* when the comparator is consistent, an implementation-defined order otherwise
SortResults(rows, columnKey, direction) ==
    LET n == Len(rows)
        cmp == CompareAll(rows, columnKey, direction)
        stable == {p \in Orders(n) :
                      \A i, j \in 1..n :
                          i < j => \/ cmp[p[i]][p[j]] < 0
                                   \/ cmp[p[i]][p[j]] = 0 /\ p[i] < p[j]}
        chosen == IF Consistent(cmp) THEN stable ELSE Orders(n)
    IN  {[i \in 1..n |-> rows[p[i]]] : p \in chosen}

\* handleSort that leaves a descending column descending
handleSortSticky(columnKey) ==
    LET direction == IF sortConfig.key = columnKey THEN "desc" ELSE "asc"
    IN  /\ TableShown
        /\ columnKey \in ColumnKeys
        /\ \E sorted \in SortResults(filteredData, columnKey, direction) :
              filteredData' = sorted
        /\ sortConfig' = [key |-> columnKey, direction |-> direction]
        /\ UNCHANGED <<data, columns, searchTerm, isUploading, selectedRows,
                       editingCell, inflight, nextId>>

\* handleSort sorting filteredData in place (filteredData.sort(...)): the
\* array it sorts is the canonical one whenever the two are the same array
handleSortInPlace(columnKey) ==
    LET direction == IF sortConfig.key = columnKey /\ sortConfig.direction = "asc"
                     THEN "desc" ELSE "asc"
    IN  /\ TableShown
        /\ columnKey \in ColumnKeys
        /\ \E sorted \in SortResults(filteredData, columnKey, direction) :
              /\ filteredData' = sorted
              /\ data' = IF filteredData = data THEN sorted ELSE data
        /\ sortConfig' = [key |-> columnKey, direction |-> direction]
        /\ UNCHANGED <<columns, searchTerm, isUploading, selectedRows,
                       editingCell, inflight, nextId>>

handleSort(columnKey) ==
    LET direction == IF sortConfig.key = columnKey /\ sortConfig.direction = "asc"
                     THEN "desc" ELSE "asc"
    IN  /\ TableShown
        /\ columnKey \in ColumnKeys
        /\ \E sorted \in SortResults(filteredData, columnKey, direction) :
              filteredData' = sorted
        /\ sortConfig' = [key |-> columnKey, direction |-> direction]
        /\ UNCHANGED <<data, columns, searchTerm, isUploading, selectedRows,
                       editingCell, inflight, nextId>>

toggleRowSelection(rowIndex) ==
    /\ TableShown
    /\ rowIndex \in 0..(Len(filteredData) - 1)
    /\ selectedRows' = IF rowIndex \in selectedRows
                       THEN selectedRows \ {rowIndex}
                       ELSE selectedRows \cup {rowIndex}
    /\ UNCHANGED <<data, columns, filteredData, searchTerm, sortConfig,
                   isUploading, editingCell, inflight, nextId>>

\* the select-all checkbox's onChange
selectAll(checked) ==
    /\ TableShown
    /\ selectedRows' = IF checked THEN 0..(Len(filteredData) - 1) ELSE {}
    /\ UNCHANGED <<data, columns, filteredData, searchTerm, sortConfig,
                   isUploading, editingCell, inflight, nextId>>

\* a click on a cell that is not being edited
beginEdit(rowIndex, columnKey) ==
    /\ TableShown
    /\ rowIndex \in 0..(Len(filteredData) - 1)
    /\ columnKey \in ColumnKeys
    /\ ~(editingCell.set /\ editingCell.row = rowIndex /\ editingCell.column = columnKey)
    /\ editingCell' = [set |-> TRUE, row |-> rowIndex, column |-> columnKey]
    /\ UNCHANGED <<data, columns, filteredData, searchTerm, sortConfig,
                   isUploading, selectedRows, inflight, nextId>>

\* the cell input is rendered for the cell the edit cursor names
InputShown ==
    /\ TableShown
    /\ editingCell.set
    /\ editingCell.row \in 0..(Len(filteredData) - 1)
    /\ editingCell.column \in ColumnKeys

\* onBlur, or Enter in the cell input
endEdit ==
    /\ InputShown
    /\ editingCell' = NoCell
    /\ UNCHANGED <<data, columns, filteredData, searchTerm, sortConfig,
                   isUploading, selectedRows, inflight, nextId>>

handleCellEdit(rowIndex, columnKey, newValue) ==
    LET shown == filteredData[rowIndex + 1]
        actualRowIndex == FindIndex(data, shown)
        \* newData[-1] = ... sets a property named "-1", not an element: the
        \* object it holds is never read again and is not named
        found == actualRowIndex # -1
        newData ==
            IF found
            THEN [data EXCEPT ![actualRowIndex + 1] =
                    [id |-> nextId + 1, orig |-> @.orig,
                     cells |-> SpreadWith(@.cells, columnKey, Str(newValue))]]
            ELSE data
        newFilteredData ==
            [filteredData EXCEPT ![rowIndex + 1] =
                [id |-> nextId, orig |-> @.orig,
                 cells |-> SpreadWith(@.cells, columnKey, Str(newValue))]]
        created == IF found THEN 2 ELSE 1
    IN  /\ InputShown
        /\ editingCell.row = rowIndex
        /\ editingCell.column = columnKey
        /\ nextId + created <= MaxObjects + 1
        /\ data' = newData
        /\ filteredData' = newFilteredData
        /\ editingCell' = NoCell
        /\ nextId' = nextId + created
        /\ UNCHANGED <<columns, searchTerm, sortConfig, isUploading,
                       selectedRows, inflight>>

\* addNewRow taking the keys of the new row from the first row, not from columns
addNewRowLikeFirstRow ==
    LET newRow == [id |-> nextId, orig |-> nextId,
                   cells |-> [i \in 1..Len(data[1].cells) |->
                                 [k |-> data[1].cells[i].k, v |-> Str(<<>>)]]]
        newData == Append(data, newRow)
    IN  /\ TableShown
        /\ Len(data) < MaxRows
        /\ nextId + 1 <= MaxObjects + 1
        /\ data' = newData
        /\ filteredData' = newData
        /\ nextId' = nextId + 1
        /\ UNCHANGED <<columns, searchTerm, sortConfig, isUploading,
                       selectedRows, editingCell, inflight>>

addNewRow ==
    LET newRow == [id |-> nextId, orig |-> nextId,
                   cells |-> [i \in 1..Len(columns) |->
                                 [k |-> columns[i].key, v |-> Str(<<>>)]]]
        newData == Append(data, newRow)
    IN  /\ TableShown
        /\ Len(data) < MaxRows
        /\ nextId + 1 <= MaxObjects + 1
        /\ data' = newData
        /\ filteredData' = newData
        /\ nextId' = nextId + 1
        /\ UNCHANGED <<columns, searchTerm, sortConfig, isUploading,
                       selectedRows, editingCell, inflight>>

deleteSelectedRows ==
    LET \* filteredData[index] is undefined for an index past the end
        rowsToDelete == {filteredData[index + 1].id :
                            index \in selectedRows \cap (0..(Len(filteredData) - 1))}
        newData == SelectSeq(data, LAMBDA row : row.id \notin rowsToDelete)
    IN  /\ TableShown
        /\ Cardinality(selectedRows) > 0
        /\ data' = newData
        /\ filteredData' = newData
        /\ selectedRows' = {}
        /\ UNCHANGED <<columns, searchTerm, sortConfig, isUploading,
                       editingCell, inflight, nextId>>

\* Papa.unparse(rows): the fields are the keys of the first row
Unparse(rows) ==
    IF Len(rows) = 0 THEN [header |-> <<>>, lines |-> <<>>]
    ELSE LET fields == Keys(rows[1])
         IN  [header |-> fields,
              lines |-> [i \in 1..Len(rows) |->
                           [f \in 1..Len(fields) |->
                              IF Get(rows[i], fields[f]).t = "undef" THEN <<>>
                              ELSE String(Get(rows[i], fields[f]))]]]

\* the text exportData hands to the download
csv == Unparse(filteredData)

exportData ==
    /\ TableShown
    /\ UNCHANGED <<data, columns, filteredData, searchTerm, sortConfig,
                   isUploading, selectedRows, editingCell, inflight, nextId>>

\* The history variable: a step records its name in last when the name is in
\* track, "other" when it is not; with nothing tracked last is left alone.
Note(track, op) ==
    last' = IF track = {} THEN last ELSE IF op \in track THEN op ELSE "other"

\* a header click, told apart by what the sort indicator showed before it
SortClick(columnKey) ==
    IF sortConfig.key # columnKey THEN "handleSort new"
    ELSE IF sortConfig.direction = "asc" THEN "handleSort asc" ELSE "handleSort desc"

\* reader.onload, told apart by whether its try block threw
Onload(file) == IF file.ok THEN "load" ELSE "failed"

Step(track) ==
    \/ resetDataGrid /\ Note(track, "resetDataGrid")
    \/ \E file \in Files : handleFileUpload(file) /\ Note(track, "handleFileUpload")
    \/ \E i \in 1..Len(inflight) : ParseComplete(i) /\ Note(track, "load")
    \/ \E i \in 1..Len(inflight) : ParseError(i) /\ Note(track, "failed")
    \/ \E i \in 1..Len(inflight) : ReaderOnload(i) /\ Note(track, Onload(inflight[i]))
    \/ \E term \in Terms : handleSearch(term) /\ Note(track, "handleSearch")
    \/ \E columnKey \in ColumnKeys : handleSort(columnKey) /\ Note(track, SortClick(columnKey))
    \/ \E rowIndex \in 0..(Len(filteredData) - 1) :
          toggleRowSelection(rowIndex) /\ Note(track, "toggleRowSelection")
    \/ \E checked \in BOOLEAN : selectAll(checked) /\ Note(track, "selectAll")
    \/ \E rowIndex \in 0..(Len(filteredData) - 1), columnKey \in ColumnKeys :
          beginEdit(rowIndex, columnKey) /\ Note(track, "beginEdit")
    \/ endEdit /\ Note(track, "endEdit")
    \/ \E newValue \in EditValues :
          /\ handleCellEdit(editingCell.row, editingCell.column, newValue)
          /\ Note(track, "handleCellEdit")
    \/ addNewRow /\ Note(track, "addNewRow")
    \/ deleteSelectedRows /\ Note(track, "deleteSelectedRows")
    \/ exportData /\ Note(track, "exportData")

SortClicks == {"handleSort new", "handleSort asc", "handleSort desc"}

Next == Step({})

\* SpecH tells the imports, the searches and the header clicks apart
NextH == Step({"load", "handleSearch"} \cup SortClicks)

\* SpecOps tells resets, failed imports and added rows apart
NextOps == Step({"resetDataGrid", "failed", "addNewRow"})

Spec == Init /\ [][Next]_vars

SpecH == Init /\ [][NextH]_vars

SpecOps == Init /\ [][NextOps]_vars

\* a pending parse calls back: the event loop runs the callback of Papa.parse
\* or of the FileReader once the file is read
Callback ==
    \E i \in 1..Len(inflight) :
        /\ ParseComplete(i) \/ ParseError(i) \/ ReaderOnload(i)
        /\ Note({}, "callback")

SpecLive == Init /\ [][Next]_vars /\ WF_vars(Callback)

(***************************************************************************)
(* Vocabulary of the properties.                                           *)
(***************************************************************************)
\* the term is empty or whitespace-only
Blank(term) == \A i \in 1..Len(term) : term[i] = " "

SameLetter(c, d) ==
    \/ c = d
    \/ <<c, d>> \in {<<"A", "a">>, <<"a", "A">>, <<"B", "b">>, <<"b", "B">>}

\* some field's string form contains the term, letter case aside
Matching(row, term) ==
    \E i \in 1..Len(row.cells) :
        LET text == String(row.cells[i].v)
        IN  \E at \in 0..(Len(text) - Len(term)) :
                \A j \in 1..Len(term) : SameLetter(text[at + j], term[j])

\* the canonical rows that are copies of the same original as the row
CanonicalOf(rows, row) == {i \in 1..Len(rows) : rows[i].orig = row.orig}

\* rows is ordered by the column: no later cell is less than an earlier one
OrderedBy(rows, key, direction) ==
    \A i, j \in 1..Len(rows) :
        i < j => IF direction = "asc"
                 THEN ~Less(Get(rows[j], key), Get(rows[i], key))
                 ELSE ~Less(Get(rows[i], key), Get(rows[j], key))

\* sub is the subsequence of rows, in order, of the elements whose index is in keep
SubsequenceAt(sub, rows, keep) ==
    /\ Len(sub) = Cardinality(keep)
    /\ \A k \in 1..Len(sub) :
          \E i \in keep : /\ Cardinality({j \in keep : j < i}) = k - 1
                          /\ sub[k] = rows[i]

(***************************************************************************)
(* C1: after handleCellEdit(r, c, V) the projected row at r has c = V and  *)
(* so has the canonical row it was derived from, for a later edit of the   *)
(* same row as for the first.                                              *)
(***************************************************************************)
C1_EditReachesBothViews ==
    [][\A V \in EditValues :
          handleCellEdit(editingCell.row, editingCell.column, V) =>
              LET r == editingCell.row
                  c == editingCell.column
              IN  /\ Get(filteredData'[r + 1], c) = Str(V)
                  /\ CanonicalOf(data', filteredData'[r + 1]) # {}
                  /\ \A i \in CanonicalOf(data', filteredData'[r + 1]) :
                        Get(data'[i], c) = Str(V)]_vars

(***************************************************************************)
(* C2: after every handler, each row object of the projection is, by       *)
(* reference, a row object of the canonical dataset.                       *)
(***************************************************************************)
C2_ProjectionSharesRows ==
    \A i \in 1..Len(filteredData) : filteredData[i].id \in Ids(data)

(***************************************************************************)
(* C3: deleteSelectedRows removes from the canonical dataset exactly the   *)
(* rows displayed at the selected projection indices, keeps the others in  *)
(* their order, and empties the selection.                                 *)
(***************************************************************************)
C3_DeleteRemovesSelected ==
    [][deleteSelectedRows =>
          LET displayed == {filteredData[i + 1].orig :
                               i \in selectedRows \cap (0..(Len(filteredData) - 1))}
              kept == {i \in 1..Len(data) : data[i].orig \notin displayed}
          IN  /\ SubsequenceAt(data', data, kept)
              /\ selectedRows' = {}]_vars

(***************************************************************************)
(* C4: with a blank search term and no sort column, the projection holds   *)
(* the rows of the canonical dataset, with the same cell values, in the    *)
(* same order.                                                             *)
(***************************************************************************)
C4_IdentityProjection ==
    Blank(searchTerm) /\ sortConfig.key = NoKey =>
        /\ Len(filteredData) = Len(data)
        /\ \A i \in 1..Len(data) :
              /\ filteredData[i].orig = data[i].orig
              /\ filteredData[i].cells = data[i].cells

(***************************************************************************)
(* C5: with a non-blank search term, the projection is exactly the set of  *)
(* canonical rows that match the term.                                     *)
(***************************************************************************)
C5_ProjectionIsTheMatches ==
    ~Blank(searchTerm) =>
        {filteredData[i] : i \in 1..Len(filteredData)}
            = {data[i] : i \in {j \in 1..Len(data) : Matching(data[j], searchTerm)}}

(***************************************************************************)
(* C6: with a sort column set, the projection is ordered by that column    *)
(* in the direction of sortConfig.                                         *)
(***************************************************************************)
C6_ProjectionStaysSorted ==
    sortConfig.key # NoKey =>
        OrderedBy(filteredData, sortConfig.key, sortConfig.direction)

(***************************************************************************)
(* C7: the first header click after an import sorts ascending, a second    *)
(* consecutive click on the same column sorts descending, and a click on   *)
(* another column sorts ascending by that column.  (Under SpecH; C is the  *)
(* clicked column.)                                                        *)
(***************************************************************************)
C7_SortClicks ==
    [][last' \in SortClicks =>
          LET C == sortConfig'.key
          IN  /\ last = "load" \/ sortConfig.key # C
                    => /\ sortConfig'.direction = "asc"
                       /\ OrderedBy(filteredData', C, "asc")
              /\ last = "handleSort new" /\ sortConfig.key = C
                    => /\ sortConfig'.direction = "desc"
                       /\ OrderedBy(filteredData', C, "desc")]_vars

(***************************************************************************)
(* C8, as claimed: a click on the column that is sorted descending leaves  *)
(* the direction descending.                                               *)
(***************************************************************************)
C8_DescendingStays ==
    [][last' = "handleSort desc" =>
          sortConfig' = [key |-> sortConfig.key, direction |-> "desc"]]_vars

(***************************************************************************)
(* C8, amended: a click on the column that is sorted descending turns the  *)
(* direction back to ascending; the column stays the sort column.          *)
(***************************************************************************)
C8_DescendingTurnsAscending ==
    [][last' = "handleSort desc" =>
          sortConfig' = [key |-> sortConfig.key, direction |-> "asc"]]_vars

C8_ClickedOnDescending ==
    /\ last = "handleSort desc"
    /\ sortConfig.key \in ColumnKeys
    /\ sortConfig.direction = "asc"

(***************************************************************************)
(* C9: right after handleSearch(term) the projection is the canonical      *)
(* dataset when the term is blank, and otherwise the canonical rows, in    *)
(* dataset order, that have a field whose string form contains the term,   *)
(* letter case aside.                                                      *)
(***************************************************************************)
C9_SearchResult ==
    [][last' = "handleSearch" =>
          IF Blank(searchTerm')
          THEN filteredData' = data'
          ELSE SubsequenceAt(filteredData', data',
                   {i \in 1..Len(data') : Matching(data'[i], searchTerm')})]_vars

C9_SearchNarrowed ==
    /\ last = "handleSearch"
    /\ ~Blank(searchTerm)
    /\ Len(filteredData) \in 1..(Len(data) - 1)

(***************************************************************************)
(* C10: handleSearch and handleSort leave the canonical dataset (the same  *)
(* row objects, values and order) and the schema as they were.             *)
(***************************************************************************)
C10_SearchAndSortKeepData ==
    [][last' \in SortClicks \cup {"handleSearch"} =>
          data' = data /\ columns' = columns]_vars

C10_SortedProjectionOnly ==
    /\ last \in SortClicks
    /\ Len(data) = 2
    /\ filteredData = <<data[2], data[1]>>

(***************************************************************************)
(* C11: resetDataGrid leaves the dataset, the schema and the projection    *)
(* empty, the search term empty, the sort config at {key: null,            *)
(* direction: 'asc'}, the selection empty and the edit cursor null.        *)
(* (Under SpecOps.)                                                        *)
(***************************************************************************)
C11_ResetClears ==
    [][last' = "resetDataGrid" =>
          /\ data' = <<>>
          /\ columns' = <<>>
          /\ filteredData' = <<>>
          /\ searchTerm' = <<>>
          /\ sortConfig' = [key |-> NoKey, direction |-> "asc"]
          /\ selectedRows' = {}
          /\ editingCell' = NoCell]_vars

C11_AfterReset ==
    /\ last = "resetDataGrid"
    /\ UploadShown
    /\ ~isUploading
    /\ searchTerm = <<>>
    /\ selectedRows = {}

(***************************************************************************)
(* C12, as claimed: a failed import (the CSV error callback, or an         *)
(* exception in reader.onload) leaves the dataset, the schema and the      *)
(* projection as they were, all three empty, and sets isUploading back to  *)
(* false.  (Under SpecOps.)                                                *)
(***************************************************************************)
C12_FailedImportLeavesAllEmpty ==
    [][last' = "failed" =>
          /\ data' = data /\ columns' = columns /\ filteredData' = filteredData
          /\ data' = <<>> /\ columns' = <<>> /\ filteredData' = <<>>
          /\ isUploading' = FALSE]_vars

(***************************************************************************)
(* C12, amended: a failed import leaves the dataset, the schema and the    *)
(* projection as they were, the dataset and the projection being empty     *)
(* (the schema is the one of the last dataset when its rows were deleted), *)
(* and sets isUploading back to false.                                     *)
(***************************************************************************)
C12_FailedImportChangesNothing ==
    [][last' = "failed" =>
          /\ data' = data /\ columns' = columns /\ filteredData' = filteredData
          /\ data' = <<>> /\ filteredData' = <<>>
          /\ isUploading' = FALSE]_vars

C12_FailedWithOldSchema ==
    /\ last = "failed"
    /\ UploadShown
    /\ ~isUploading
    /\ columns # <<>>

(***************************************************************************)
(* C13: at most one import is in flight; while a parse has not called back *)
(* isUploading is true and no handleFileUpload can start.                  *)
(***************************************************************************)
C13_OneImportInFlight ==
    /\ Len(inflight) <= 1
    /\ inflight # <<>> =>
          /\ isUploading
          /\ \A file \in Files : ~ENABLED handleFileUpload(file)

C13_ParseInFlight ==
    /\ Len(inflight) = 1
    /\ isUploading
    /\ UploadShown

(***************************************************************************)
(* C14: after a successful import of a non-empty input, of CSV as of JSON, *)
(* the canonical dataset and the projection are the parsed rows in input   *)
(* order (a single JSON object being one row), and the schema's column     *)
(* keys are the keys of the first parsed row, in order.  (Under SpecH.)    *)
(***************************************************************************)
C14_ImportResult ==
    [][last' = "load" /\ Len(inflight) = 1 /\ inflight[1].ok /\ inflight[1].rows # <<>> =>
          LET file == inflight[1]
              parsed == IF file.isArray THEN file.rows ELSE <<file.rows[1]>>
          IN  /\ Len(data') = Len(parsed)
              /\ \A i \in 1..Len(parsed) : data'[i].cells = parsed[i]
              /\ filteredData' = data'
              /\ [i \in 1..Len(columns') |-> columns'[i].key] = Keys(data'[1])]_vars

(***************************************************************************)
(* C15: the text exportData serializes has one data row per row of the     *)
(* projection, in projection order, and holds the cell values of that row: *)
(* every cell of the row that is not the empty string is found in the line *)
(* under its key.  (exportData itself changes no state variable.)          *)
(***************************************************************************)
C15_ExportIsTheProjection ==
    TableShown =>
        /\ Len(csv.lines) = Len(filteredData)
        /\ \A i \in 1..Len(filteredData) :
              \A c \in 1..Len(filteredData[i].cells) :
                  \/ String(filteredData[i].cells[c].v) = <<>>
                  \/ \E f \in 1..Len(csv.header) :
                        /\ csv.header[f] = filteredData[i].cells[c].k
                        /\ csv.lines[i][f] = String(filteredData[i].cells[c].v)

(***************************************************************************)
(* C16: with data loaded, the header row of the exported text is the       *)
(* schema's column keys in schema order, also when the projection is empty *)
(* and when the keys of the rows differ from the schema's.                 *)
(***************************************************************************)
C16_ExportHeaderIsTheSchema ==
    TableShown => csv.header = [i \in 1..Len(columns) |-> columns[i].key]

(***************************************************************************)
(* C17: addNewRow appends one new row object at the end of the canonical   *)
(* dataset, its keys the schema's column keys, each mapped to the empty    *)
(* string, and leaves the rows that were there (objects, values, order)    *)
(* as they were.  (Under SpecOps.)                                         *)
(***************************************************************************)
C17_AddAppendsEmptyRow ==
    [][last' = "addNewRow" =>
          /\ Len(data') = Len(data) + 1
          /\ SubSeq(data', 1, Len(data)) = data
          /\ LET newRow == data'[Len(data')]
             IN  /\ newRow.id \notin Ids(data) \cup Ids(filteredData)
                 /\ Keys(newRow) = [i \in 1..Len(columns) |-> columns[i].key]
                 /\ \A c \in 1..Len(newRow.cells) : newRow.cells[c].v = Str(<<>>)]_vars

C17_RowAdded ==
    /\ last = "addNewRow"
    /\ Len(data) = 2
    /\ Keys(data[2]) # Keys(data[1])
    /\ Values(data[2]) = {Str(<<>>)}

(***************************************************************************)
(* C18: every index in selectedRows is an index of the projection:         *)
(* 0 <= i < filteredData.length.                                           *)
(***************************************************************************)
C18_SelectionWithinProjection ==
    \A i \in selectedRows : 0 <= i /\ i < Len(filteredData)

(***************************************************************************)
(* C20: whenever the canonical dataset is empty, the view state is the     *)
(* initial one: projection empty, search term empty, sortConfig            *)
(* {key: null, direction: 'asc'}, selection empty, edit cursor null.       *)
(***************************************************************************)
C20_EmptyDatasetCleanView ==
    Len(data) = 0 =>
        /\ filteredData = <<>>
        /\ searchTerm = <<>>
        /\ sortConfig = [key |-> NoKey, direction |-> "asc"]
        /\ selectedRows = {}
        /\ editingCell = NoCell

(***************************************************************************)
(* C19: every upload terminates: whenever isUploading is true, for a file  *)
(* of any name and MIME type, it eventually becomes false again.  (Under   *)
(* SpecLive, where a pending parse eventually calls back.)                 *)
(***************************************************************************)
C19_UploadTerminates == isUploading ~> ~isUploading

====
